---- MODULE Spec2Model ----
(***************************************************************************)
(* Offer negotiation of backend/order/serializers.py: OrderSerializer's    *)
(* validate, create and update, run by concurrent HTTP requests against    *)
(* one database.  The file opens no transaction, so every ORM call         *)
(* (exists, create, filter().update, save) is a step of its own and the    *)
(* steps of different requests interleave.                                 *)
(*                                                                         *)
(* Amounts and prices are whole numbers of the smallest currency unit;     *)
(* float() is exact and order preserving on them, so the float comparisons *)
(* of the source are the integer comparisons here.                         *)
(***************************************************************************)
EXTENDS Integers, Sequences, FiniteSets, TLC

\* ------------------------------------------------------------- bounds
MaxRequests == 3      \* requests issued in one behaviour
MaxAmount == 3        \* largest amount a payload carries

\* ------------------------------------------------------------- domains
Slots == {"r1", "r2"}                  \* request handlers running at once
Buyers == {"b1", "b2"}                 \* identities that make offers
\* product.seller, the order's vendor
Seller == [p \in {"p1", "p2"} |-> IF p = "p1" THEN "v" ELSE "w"]
Products == DOMAIN Seller
Actors == Buyers \cup {Seller[p] : p \in Products}
Price == [p \in Products |-> IF p = "p1" THEN 2 ELSE 3] \* product.price, never written here
NoAmount == 0                          \* payload without "amount"
NoStatus == "NONE"                     \* payload without "status"
Amounts == 1..MaxAmount

available == {"OFFERED", "DENIED", "PENDING"}
sold == {"PROCESSING", "ACCEPTED", "COMPLETED"}
Status == available \cup sold
DefaultStatus == "OFFERED"             \* Order.status default of the model class

MethodNotAllowed == "MethodNotAllowed" \* the spec's Conflict
Conflict == MethodNotAllowed
NotFound == "NotFound"
KeyError == "KeyError"                 \* data["amount"] on a payload without it
Ok == "ok"

VARIABLES orders, avail, last, reqs, nreq
vars == <<orders, avail, last, reqs, nreq>>

\* ------------------------------------------------------------- helpers
OrderIds == DOMAIN orders

Idle == [pc |-> "idle", op |-> "none", actor |-> "v", buyer |-> "v",
         product |-> "p1", amount |-> NoAmount, status |-> NoStatus,
         oid |-> 0, istatus |-> NoStatus, iamount |-> NoAmount,
         result |-> "none", again |-> FALSE, pre |-> [orders |-> <<>>, avail |-> [p \in Products |-> TRUE]]]

\* Order.objects.filter(buyer=..., product=...).exists()
StandingOrder(os, b, p) ==
    \E i \in DOMAIN os : os[i].buyer = b /\ os[i].product = p

\* ValidatePost with the price check forgotten: the fault C7 must detect
ValidatePost_NoPriceCheck(os, av, b, p, amt) ==
    IF StandingOrder(os, b, p) THEN MethodNotAllowed
    ELSE IF amt = NoAmount THEN KeyError
    ELSE IF ~av[p] THEN NotFound
    ELSE Ok

\* validate, POST branch then the availability check
ValidatePost(os, av, b, p, amt) ==
    IF StandingOrder(os, b, p) THEN MethodNotAllowed
    ELSE IF amt = NoAmount THEN KeyError
    ELSE IF amt > Price[p] THEN MethodNotAllowed
    ELSE IF ~av[p] THEN NotFound
    ELSE Ok

\* ValidatePut with the availability check forgotten: the fault C16 must detect
ValidatePut_NoAvailability(av, actor, ibuyer, p, amt) ==
    IF actor = ibuyer /\ amt = NoAmount THEN KeyError
    ELSE IF actor = ibuyer /\ amt > Price[p] THEN MethodNotAllowed
    ELSE Ok

\* ValidatePut that lets the buyer through on an unavailable product: the
\* fault C12 must detect
ValidatePut_BuyerExempt(av, actor, ibuyer, p, amt) ==
    IF actor = ibuyer /\ amt = NoAmount THEN KeyError
    ELSE IF actor = ibuyer /\ amt > Price[p] THEN MethodNotAllowed
    ELSE IF ~av[p] /\ actor # ibuyer THEN NotFound
    ELSE Ok

\* validate, PUT branch then the availability check
ValidatePut(av, actor, ibuyer, p, amt) ==
    IF actor = ibuyer /\ amt = NoAmount THEN KeyError
    ELSE IF actor = ibuyer /\ amt > Price[p] THEN MethodNotAllowed
    ELSE IF ~av[p] THEN NotFound
    ELSE Ok

\* the vendor the Order model records for a new order: the product's seller
VendorOf(p) == Seller[p]

\* amount = validated_data.get("amount", product.price)
CreateAmount(amt, p) == IF amt = NoAmount THEN Price[p] ELSE amt

\* StatusFromAmount with the equality test lost to <=: the fault C8 must detect
StatusFromAmount_LessOrEqual(st, amt, p) ==
    IF amt <= Price[p] THEN "OFFERED" ELSE st

\* the two ifs that derive a status from the amount; st is kept otherwise
StatusFromAmount(st, amt, p) ==
    LET st1 == IF amt < Price[p] THEN "OFFERED" ELSE st
    IN IF amt = Price[p] THEN "PROCESSING" ELSE st1

\* Reconcile that never marks a product unavailable: the fault C10 must detect
Reconcile_NeverSold(st, cur) ==
    IF st \in available THEN TRUE ELSE cur

\* the is_available a status asks for; cur is kept for a status of neither set
Reconcile(st, cur) ==
    LET a1 == IF st \in sold THEN FALSE ELSE cur
    IN IF st \in available THEN TRUE ELSE a1

\* create: the is_available written for the new order's status
CreateFlag(st, cur) ==
    LET a1 == IF st = "PROCESSING" THEN FALSE ELSE cur
    IN IF st = "OFFERED" THEN TRUE ELSE a1

\* VendorStatus without the role test: the fault C13 must detect
VendorStatus_AnyActor(actor, vendor, pst, ist) ==
    IF pst # NoStatus THEN pst ELSE ist

\* update, vendor branch: instance.status
VendorStatus(actor, vendor, pst, ist) ==
    IF actor = vendor /\ pst # NoStatus THEN pst ELSE ist

\* update, buyer branch: instance.amount
BuyerAmount(actor, ibuyer, amt, iamt) ==
    IF actor = ibuyer /\ amt # NoAmount THEN amt ELSE iamt

\* BuyerStatus that keeps the status it is given: the fault C15 must detect
BuyerStatus_Kept(actor, ibuyer, st, amt, p) == st

\* update, buyer branch: instance.status
BuyerStatus(actor, ibuyer, st, amt, p) ==
    IF actor = ibuyer THEN StatusFromAmount(st, amt, p) ELSE st

Finish(r, res) == [reqs[r] EXCEPT !.pc = "done", !.result = res]

\* ------------------------------------------------------------- state
Init ==
    /\ orders = <<>>
    /\ avail = [p \in Products |-> TRUE]
    /\ last = [p \in Products |-> 0]
    /\ reqs = [r \in Slots |-> Idle]
    /\ nreq = 0

\* ------------------------------------------------------------- CreateOffer
\* POST arrives and validate runs: the exists() query and the product read
CreateValidate(r, actor, b, p, amt) ==
    /\ reqs[r].pc = "idle"
    /\ nreq < MaxRequests
    /\ nreq' = nreq + 1
    /\ LET res == ValidatePost(orders, avail, b, p, amt)
           rq == [Idle EXCEPT !.op = "create", !.actor = actor, !.buyer = b,
                              !.product = p, !.amount = amt,
                              !.pre = [orders |-> orders, avail |-> avail]]
       IN reqs' = [reqs EXCEPT ![r] =
                     IF res = Ok THEN [rq EXCEPT !.pc = "c_insert"]
                     ELSE [rq EXCEPT !.pc = "done", !.result = res]]
    /\ UNCHANGED <<orders, avail, last>>

\* CreateInsert recording the payload's buyer instead of the requester: the
\* fault C18 must detect
CreateInsert_PayloadBuyer(r) ==
    /\ reqs[r].pc = "c_insert"
    /\ LET p == reqs[r].product
           amt == CreateAmount(reqs[r].amount, p)
           id == Len(orders) + 1
       IN /\ orders' = Append(orders, [buyer |-> reqs[r].buyer, product |-> p,
                                       vendor |-> VendorOf(p),
                                       status |-> DefaultStatus, amount |-> amt])
          /\ last' = [last EXCEPT ![p] = id]
          /\ reqs' = [reqs EXCEPT ![r].pc = "c_product", ![r].oid = id,
                                  ![r].iamount = amt,
                                  ![r].istatus = StatusFromAmount(DefaultStatus, amt, p)]
    /\ UNCHANGED <<avail, nreq>>

\* Order.objects.create(buyer=request.user.vendor, product, amount), then the
\* status derived on the instance in memory
CreateInsert(r) ==
    /\ reqs[r].pc = "c_insert"
    /\ LET p == reqs[r].product
           amt == CreateAmount(reqs[r].amount, p)
           id == Len(orders) + 1
       IN /\ orders' = Append(orders, [buyer |-> reqs[r].actor, product |-> p,
                                       vendor |-> VendorOf(p),
                                       status |-> DefaultStatus, amount |-> amt])
          /\ last' = [last EXCEPT ![p] = id]
          /\ reqs' = [reqs EXCEPT ![r].pc = "c_product", ![r].oid = id,
                                  ![r].iamount = amt,
                                  ![r].istatus = StatusFromAmount(DefaultStatus, amt, p)]
    /\ UNCHANGED <<avail, nreq>>

\* Product.objects.filter(id=instance.product.id).update(is_available=...)
CreateProduct(r) ==
    /\ reqs[r].pc = "c_product"
    /\ avail' = [avail EXCEPT ![orders[reqs[r].oid].product] =
                                CreateFlag(reqs[r].istatus, @)]
    /\ reqs' = [reqs EXCEPT ![r].pc = "c_save"]
    /\ UNCHANGED <<orders, last, nreq>>

\* instance.save(): every column of the row is written from the instance
CreateSave(r) ==
    /\ reqs[r].pc = "c_save"
    /\ LET id == reqs[r].oid
       IN /\ orders' = [orders EXCEPT ![id].status = reqs[r].istatus,
                                      ![id].amount = reqs[r].iamount]
          /\ last' = [last EXCEPT ![orders[id].product] = id]
    /\ reqs' = [reqs EXCEPT ![r] = Finish(r, Ok)]
    /\ UNCHANGED <<avail, nreq>>

\* ------------------------------------------------------------- UpdateOffer
\* PUT arrives and the view loads the instance: a copy of the row
UpdateLoad(r, actor, id, p, amt, st) ==
    /\ reqs[r].pc = "idle"
    /\ nreq < MaxRequests
    /\ id \in OrderIds
    /\ nreq' = nreq + 1
    /\ reqs' = [reqs EXCEPT ![r] =
                  [Idle EXCEPT !.pc = "u_validate", !.op = "update", !.actor = actor,
                               !.buyer = orders[id].buyer, !.product = p,
                               !.amount = amt, !.status = st, !.oid = id,
                               !.istatus = orders[id].status,
                               !.iamount = orders[id].amount,
                               !.pre = [orders |-> orders, avail |-> avail]]]
    /\ UNCHANGED <<orders, avail, last>>

\* the client sends the PUT it was just answered once more: the instance is
\* loaded afresh
UpdateAgain(r) ==
    /\ reqs[r].pc = "done"
    /\ reqs[r].op = "update"
    /\ nreq < MaxRequests
    /\ nreq' = nreq + 1
    /\ LET id == reqs[r].oid
       IN reqs' = [reqs EXCEPT ![r] =
                     [reqs[r] EXCEPT !.pc = "u_validate", !.result = "none",
                                     !.again = TRUE,
                                     !.istatus = orders[id].status,
                                     !.iamount = orders[id].amount,
                                     !.pre = [orders |-> orders, avail |-> avail]]]
    /\ UNCHANGED <<orders, avail, last>>

\* validate runs on the payload: its product is read now
UpdateValidate(r) ==
    /\ reqs[r].pc = "u_validate"
    /\ LET res == ValidatePut(avail, reqs[r].actor, reqs[r].buyer,
                              reqs[r].product, reqs[r].amount)
       IN reqs' = [reqs EXCEPT ![r] =
                     IF res = Ok THEN [reqs[r] EXCEPT !.pc = "u_save"]
                     ELSE Finish(r, res)]
    /\ UNCHANGED <<orders, avail, last, nreq>>

\* UpdateSave whose reconciliation will read the status loaded before the
\* branches ran: the fault C14 must detect
UpdateSave_StaleStatus(r) ==
    /\ reqs[r].pc = "u_save"
    /\ LET rq == reqs[r]
           id == rq.oid
           vendor == orders[id].vendor
           st1 == VendorStatus(rq.actor, vendor, rq.status, rq.istatus)
           amt == BuyerAmount(rq.actor, rq.buyer, rq.amount, rq.iamount)
           st2 == BuyerStatus(rq.actor, rq.buyer, st1, amt, rq.product)
       IN /\ orders' = [orders EXCEPT ![id].status = st2, ![id].amount = amt]
          /\ last' = [last EXCEPT ![orders[id].product] = id]
          /\ reqs' = [reqs EXCEPT ![r].pc = "u_product", ![r].iamount = amt]
    /\ UNCHANGED <<avail, nreq>>

\* the two role branches on the instance, then instance.save()
UpdateSave(r) ==
    /\ reqs[r].pc = "u_save"
    /\ LET rq == reqs[r]
           id == rq.oid
           vendor == orders[id].vendor
           st1 == VendorStatus(rq.actor, vendor, rq.status, rq.istatus)
           amt == BuyerAmount(rq.actor, rq.buyer, rq.amount, rq.iamount)
           st2 == BuyerStatus(rq.actor, rq.buyer, st1, amt, rq.product)
       IN /\ orders' = [orders EXCEPT ![id].status = st2, ![id].amount = amt]
          /\ last' = [last EXCEPT ![orders[id].product] = id]
          /\ reqs' = [reqs EXCEPT ![r].pc = "u_product", ![r].istatus = st2,
                                  ![r].iamount = amt]
    /\ UNCHANGED <<avail, nreq>>

\* product.save(): the product the payload names
UpdateProduct(r) ==
    /\ reqs[r].pc = "u_product"
    /\ avail' = [avail EXCEPT ![reqs[r].product] = Reconcile(reqs[r].istatus, @)]
    /\ reqs' = [reqs EXCEPT ![r].pc = "u_instproduct"]
    /\ UNCHANGED <<orders, last, nreq>>

\* instance.product.save(): the product of the order
UpdateInstanceProduct(r) ==
    /\ reqs[r].pc = "u_instproduct"
    /\ avail' = [avail EXCEPT ![orders[reqs[r].oid].product] =
                                Reconcile(reqs[r].istatus, @)]
    /\ reqs' = [reqs EXCEPT ![r] = Finish(r, Ok)]
    /\ UNCHANGED <<orders, last, nreq>>

\* the response is sent and the handler is free again
Respond(r) ==
    /\ reqs[r].pc = "done"
    /\ reqs' = [reqs EXCEPT ![r] = Idle]
    /\ UNCHANGED <<orders, avail, last, nreq>>

\* ------------------------------------------------------------- next
\* the steps of a request after its arrival
Run(r) ==
    \/ CreateInsert(r)
    \/ CreateProduct(r)
    \/ CreateSave(r)
    \/ UpdateValidate(r)
    \/ UpdateSave(r)
    \/ UpdateProduct(r)
    \/ UpdateInstanceProduct(r)
    \/ Respond(r)

\* a request of the site's own client: the payload names the acting identity
\* as buyer and the order's own product, a vendor sends a status and a buyer
\* sends an amount
ClientRequest(r) ==
    \/ \E a \in Buyers, p \in Products, amt \in Amounts \cup {NoAmount} :
          CreateValidate(r, a, a, p, amt)
    \/ \E id \in OrderIds, st \in Status :
          UpdateLoad(r, orders[id].vendor, id, orders[id].product, NoAmount, st)
    \/ \E id \in OrderIds, amt \in Amounts :
          UpdateLoad(r, orders[id].buyer, id, orders[id].product, amt, NoStatus)

\* any request the serializer accepts: every writable field of the payload is
\* the sender's choice
AnyRequest(r) ==
    \/ \E a \in Buyers, b \in Buyers, p \in Products, amt \in Amounts \cup {NoAmount} :
          CreateValidate(r, a, b, p, amt)
    \/ \E a \in Actors, id \in OrderIds, p \in Products,
          amt \in Amounts \cup {NoAmount}, st \in Status \cup {NoStatus} :
          UpdateLoad(r, a, id, p, amt, st)
    \/ UpdateAgain(r)

\* concurrent handlers serving client requests
Next == \E r \in Slots : ClientRequest(r) \/ Run(r)

Spec == Init /\ [][Next]_vars

\* one handler, one request at a time, any payload
SeqNext == AnyRequest("r1") \/ Run("r1")

SeqSpec == Init /\ [][SeqNext]_vars

\* ------------------------------------------------------------- claims
Done(r) == reqs[r].pc = "done"
Quiescent == \A r \in Slots : reqs[r].pc \in {"idle", "done"}
OrdersOf(b, p) == {i \in OrderIds : orders[i].buyer = b /\ orders[i].product = p}
SoldOn(p) == {i \in OrderIds : orders[i].product = p /\ orders[i].status \in sold}

\* C1: under any interleaving of concurrent requests, each product has at
\* most one order whose status is in the sold set.
C1_OneSalePerProduct ==
    \A p \in Products : Cardinality(SoldOn(p)) <= 1

\* C2: of concurrent CreateOffer calls by one buyer on one product (each with
\* an amount not above the price), exactly one persists an order and every
\* other fails with Conflict.
C2_OneOfConcurrentCreates ==
    \A r1, r2 \in Slots :
        ( /\ r1 # r2
          /\ Done(r1) /\ Done(r2)
          /\ reqs[r1].op = "create" /\ reqs[r2].op = "create"
          /\ reqs[r1].actor = reqs[r2].actor
          /\ reqs[r1].product = reqs[r2].product
          /\ reqs[r1].amount \in 1..Price[reqs[r1].product]
          /\ reqs[r2].amount \in 1..Price[reqs[r2].product]
          /\ reqs[r1].result = Ok )
        => /\ reqs[r2].result = Conflict
           /\ Cardinality(OrdersOf(reqs[r1].actor, reqs[r1].product)) = 1

\* C3: when no request is mid-execution, every product an order write has
\* touched is available exactly if the order most recently written on it has
\* a status of the available set.
C3_AvailabilityFollowsLastOrder ==
    Quiescent =>
        \A p \in Products :
            last[p] # 0 => (avail[p] <=> orders[last[p]].status \in available)

\* C4: the order write and the product write of one operation commit
\* together: no state shows a request's order write persisted while the
\* product write it is about to make would still change is_available.
C4_CommitTogether ==
    \A r \in Slots :
        /\ reqs[r].pc = "c_product" =>
              LET p == orders[reqs[r].oid].product
              IN avail[p] = CreateFlag(reqs[r].istatus, avail[p])
        /\ reqs[r].pc = "u_product" =>
              avail[reqs[r].product] = Reconcile(reqs[r].istatus, avail[reqs[r].product])
        /\ reqs[r].pc = "u_instproduct" =>
              LET p == orders[reqs[r].oid].product
              IN avail[p] = Reconcile(reqs[r].istatus, avail[p])

\* C5: once a vendor's status update and a buyer's amount update of the same
\* order have both completed, the product is available exactly if the
\* persisted status is in the available set.
C5_ReconciledAfterBoth ==
    \A r1, r2 \in Slots :
        ( /\ r1 # r2
          /\ Done(r1) /\ Done(r2)
          /\ reqs[r1].op = "update" /\ reqs[r2].op = "update"
          /\ reqs[r1].result = Ok /\ reqs[r2].result = Ok
          /\ reqs[r1].oid = reqs[r2].oid
          /\ reqs[r1].actor = Seller[orders[reqs[r1].oid].product]
          /\ reqs[r2].actor = orders[reqs[r2].oid].buyer )
        => LET o == orders[reqs[r1].oid]
           IN avail[o.product] <=> o.status \in available

\* C6: in a sequential execution at most one order exists per (buyer,
\* product), the buyer being the acting identity recorded on the order,
\* whatever the payload contains.
C6_OneStandingOrder ==
    \A i, j \in OrderIds :
        (orders[i].buyer = orders[j].buyer /\ orders[i].product = orders[j].product)
        => i = j

\* C7: a request that fails validation with Conflict or NotFound leaves every
\* order and every is_available as before the call, and a CreateOffer above
\* the price fails with Conflict and creates no order.
C7_FailedValidationWritesNothing ==
    \A r \in Slots :
        LET rq == reqs[r] IN
        /\ (Done(r) /\ rq.result \in {Conflict, NotFound})
              => (orders = rq.pre.orders /\ avail = rq.pre.avail)
        /\ (Done(r) /\ rq.op = "create" /\ rq.amount > Price[rq.product])
              => (rq.result = Conflict /\ orders = rq.pre.orders)

C7_Witness ==
    \E r \in Slots :
        /\ Done(r) /\ reqs[r].op = "create"
        /\ reqs[r].amount > Price[reqs[r].product]
        /\ reqs[r].result = Conflict
        /\ orders # <<>>

\* the precondition of a CreateOffer that must succeed: the payload names the
\* actor as buyer, the product was available and the buyer had no order on it
CreateOfferDue(rq) ==
    /\ rq.pc = "done" /\ rq.op = "create"
    /\ rq.buyer = rq.actor
    /\ rq.pre.avail[rq.product]
    /\ ~StandingOrder(rq.pre.orders, rq.actor, rq.product)

\* the orders are those before the call and one more, the given one
Created(rq, o) ==
    /\ rq.result = Ok
    /\ orders = Append(rq.pre.orders, o)
    /\ \A q \in Products \ {rq.product} : avail[q] = rq.pre.avail[q]

\* C8: CreateOffer(B, P, a) with P available, no order of B on P and
\* a <= price creates exactly one order, OFFERED if a < price and PROCESSING
\* if a = price, and leaves P available in the first case only.
C8_CreateOfferStatus ==
    \A r \in Slots :
        LET rq == reqs[r]
            p == rq.product
        IN (CreateOfferDue(rq) /\ rq.amount \in 1..Price[p])
           => /\ Created(rq, [buyer |-> rq.actor, product |-> p, vendor |-> Seller[p],
                              amount |-> rq.amount,
                              status |-> IF rq.amount < Price[p] THEN "OFFERED"
                                         ELSE "PROCESSING"])
              /\ avail[p] <=> rq.amount < Price[p]

C8_Witness ==
    \E r \in Slots :
        /\ CreateOfferDue(reqs[r])
        /\ reqs[r].amount = Price[reqs[r].product]
        /\ reqs[r].pre.orders # <<>>
        /\ orders[Len(orders)].status = "PROCESSING"
        /\ ~avail[reqs[r].product]

\* C9: CreateOffer(B, P) with no amount succeeds with amount = price, status
\* PROCESSING and P unavailable afterwards.
C9_CreateOfferDefaultAmount ==
    \A r \in Slots :
        LET rq == reqs[r]
            p == rq.product
        IN (CreateOfferDue(rq) /\ rq.amount = NoAmount)
           => /\ Created(rq, [buyer |-> rq.actor, product |-> p, vendor |-> Seller[p],
                              amount |-> Price[p],
                              status |-> "PROCESSING"])
              /\ ~avail[p]

\* a vendor's status-only update of an order whose product was available
VendorUpdateDue(rq) ==
    /\ rq.pc = "done" /\ rq.op = "update"
    /\ rq.actor = Seller[rq.pre.orders[rq.oid].product]
    /\ rq.product = rq.pre.orders[rq.oid].product
    /\ rq.amount = NoAmount
    /\ rq.status \in Status
    /\ rq.pre.avail[rq.product]

\* C10: a vendor UpdateOffer(vendor, order, {status: s}) on an order whose
\* product is available yields status s and is_available = (s in available).
C10_VendorSetsStatus ==
    \A r \in Slots :
        LET rq == reqs[r] IN
        VendorUpdateDue(rq)
        => /\ rq.result = Ok
           /\ orders = [rq.pre.orders EXCEPT ![rq.oid].status = rq.status]
           /\ avail[rq.product] <=> rq.status \in available

C10_Witness ==
    \E r \in Slots :
        /\ VendorUpdateDue(reqs[r])
        /\ reqs[r].pre.orders[reqs[r].oid].status = "OFFERED"
        /\ reqs[r].status = "ACCEPTED"
        /\ orders[reqs[r].oid].status = "ACCEPTED"
        /\ ~avail[reqs[r].product]

\* a buyer's amount update of the buyer's own order, naming the order's product
BuyerUpdateDue(rq) ==
    /\ rq.pc = "done" /\ rq.op = "update"
    /\ rq.actor = rq.pre.orders[rq.oid].buyer
    /\ rq.product = rq.pre.orders[rq.oid].product
    /\ rq.amount # NoAmount

\* C11: the buyer's UpdateOffer {amount: price} yields PROCESSING and an
\* unavailable product, and the buyer's next UpdateOffer {amount: price - 1}
\* on that order succeeds and yields OFFERED and an available product.
C11_RaiseThenLower ==
    \A r \in Slots :
        LET rq == reqs[r]
            p == rq.product
            o == rq.pre.orders[rq.oid]
        IN /\ (BuyerUpdateDue(rq) /\ rq.pre.avail[p] /\ rq.amount = Price[p])
              => /\ rq.result = Ok
                 /\ orders[rq.oid].status = "PROCESSING"
                 /\ ~avail[p]
           /\ ( /\ BuyerUpdateDue(rq)
                /\ o.status = "PROCESSING" /\ o.amount = Price[p] /\ ~rq.pre.avail[p]
                /\ rq.amount = Price[p] - 1 )
              => /\ rq.result = Ok
                 /\ orders[rq.oid].status = "OFFERED"
                 /\ avail[p]

\* an UpdateOffer by one of the order's two participants
ParticipantUpdate(rq) ==
    /\ rq.pc = "done" /\ rq.op = "update"
    /\ rq.actor \in {rq.pre.orders[rq.oid].buyer, rq.pre.orders[rq.oid].vendor}

Unchanged(rq) == orders = rq.pre.orders /\ avail = rq.pre.avail

\* C12 as claimed: a participant's UpdateOffer (a buyer's carrying an amount)
\* on an order whose product is unavailable fails with NotFound and changes
\* nothing.
C12_NotFoundWhenUnavailable ==
    \A r \in Slots :
        LET rq == reqs[r] IN
        ( /\ ParticipantUpdate(rq)
          /\ rq.product = rq.pre.orders[rq.oid].product
          /\ rq.actor = rq.buyer => rq.amount # NoAmount
          /\ ~rq.pre.avail[rq.product] )
        => (rq.result = NotFound /\ Unchanged(rq))

\* C12 amended: a participant's UpdateOffer whose payload names an unavailable
\* product fails and changes nothing; the error is NotFound unless the actor
\* is the buyer and the amount check, which runs first, fails: Conflict for an
\* amount above the price, KeyError for a payload without amount.
C12_FailsWhenUnavailable ==
    \A r \in Slots :
        LET rq == reqs[r] IN
        (ParticipantUpdate(rq) /\ ~rq.pre.avail[rq.product])
        => /\ Unchanged(rq)
           /\ rq.result =
                IF rq.actor = rq.buyer /\ rq.amount = NoAmount THEN KeyError
                ELSE IF rq.actor = rq.buyer /\ rq.amount > Price[rq.product]
                     THEN Conflict
                ELSE NotFound

C12_Witness ==
    \E r \in Slots :
        /\ ParticipantUpdate(reqs[r])
        /\ reqs[r].actor = reqs[r].buyer
        /\ reqs[r].product = orders[reqs[r].oid].product
        /\ orders[reqs[r].oid].status = "PROCESSING"
        /\ ~reqs[r].pre.avail[reqs[r].product]
        /\ reqs[r].result = NotFound

\* an UpdateOffer by an identity that is neither the order's buyer nor its vendor
StrangerUpdate(rq) ==
    /\ rq.pc = "done" /\ rq.op = "update"
    /\ rq.actor \notin {rq.pre.orders[rq.oid].buyer, rq.pre.orders[rq.oid].vendor}

\* C13 as claimed: an UpdateOffer by a non-participant raises no error and
\* leaves the order and every product's is_available unchanged, whatever the
\* payload.
C13_StrangerNoOp ==
    \A r \in Slots :
        StrangerUpdate(reqs[r]) => (reqs[r].result = Ok /\ Unchanged(reqs[r]))

\* C13 amended: an UpdateOffer by a non-participant changes no order; it fails
\* with NotFound when the payload's product is unavailable, and otherwise
\* succeeds and sets is_available of the payload's product and of the order's
\* product to (the order's status is in the available set).
C13_StrangerReconciles ==
    \A r \in Slots :
        LET rq == reqs[r]
            o == rq.pre.orders[rq.oid]
            flag == o.status \in available
        IN StrangerUpdate(rq)
           => /\ orders = rq.pre.orders
              /\ IF rq.pre.avail[rq.product]
                 THEN /\ rq.result = Ok
                      /\ avail = [q \in Products |->
                                    IF q \in {rq.product, o.product} THEN flag
                                    ELSE rq.pre.avail[q]]
                 ELSE rq.result = NotFound /\ avail = rq.pre.avail

C13_Witness ==
    \E r \in Slots :
        /\ StrangerUpdate(reqs[r])
        /\ reqs[r].status # NoStatus /\ reqs[r].amount # NoAmount
        /\ reqs[r].result = Ok
        /\ avail # reqs[r].pre.avail

\* a vendor's status-only UpdateOffer naming the order's product, sent once
\* more right after its first application
VendorUpdateAgain(rq) ==
    /\ rq.pc = "done" /\ rq.op = "update" /\ rq.again
    /\ rq.actor = rq.pre.orders[rq.oid].vendor
    /\ rq.product = rq.pre.orders[rq.oid].product
    /\ rq.amount = NoAmount
    /\ rq.status \in Status

\* C14: re-issuing the same status-only vendor UpdateOffer right after its
\* first application leaves every order and every is_available as they were
\* after the first application.
C14_VendorUpdateIdempotent ==
    \A r \in Slots : VendorUpdateAgain(reqs[r]) => Unchanged(reqs[r])

C14_Witness ==
    \E r \in Slots :
        /\ VendorUpdateAgain(reqs[r])
        /\ reqs[r].status = "DENIED"
        /\ reqs[r].result = Ok
        /\ orders[reqs[r].oid].status = "DENIED"

C14_WitnessSold ==
    \E r \in Slots :
        /\ VendorUpdateAgain(reqs[r])
        /\ reqs[r].status = "ACCEPTED"
        /\ reqs[r].result = NotFound
        /\ orders[reqs[r].oid].status = "ACCEPTED"

\* C15: a buyer's UpdateOffer with amount a on an order whose product is
\* available fails with Conflict and changes nothing if a > price; otherwise
\* the order gets amount a and status OFFERED (a < price) or PROCESSING
\* (a = price), whatever its previous status and the status in the payload.
C15_BuyerAmountSetsStatus ==
    \A r \in Slots :
        LET rq == reqs[r]
            p == rq.product
        IN (BuyerUpdateDue(rq) /\ rq.pre.avail[p])
           => IF rq.amount > Price[p]
              THEN rq.result = Conflict /\ Unchanged(rq)
              ELSE /\ rq.result = Ok
                   /\ orders = [rq.pre.orders EXCEPT
                                  ![rq.oid].amount = rq.amount,
                                  ![rq.oid].status = IF rq.amount < Price[p]
                                                     THEN "OFFERED" ELSE "PROCESSING"]

C15_Witness ==
    \E r \in Slots :
        /\ BuyerUpdateDue(reqs[r]) /\ reqs[r].pre.avail[reqs[r].product]
        /\ reqs[r].pre.orders[reqs[r].oid].status = "DENIED"
        /\ reqs[r].status = "COMPLETED"
        /\ reqs[r].amount = Price[reqs[r].product]
        /\ orders[reqs[r].oid].status = "PROCESSING"

\* the status order o would have after an accepted UpdateOffer by actor with
\* payload (p, amt, st)
StatusAfter(o, actor, p, amt, st) ==
    BuyerStatus(actor, o.buyer, VendorStatus(actor, o.vendor, st, o.status),
                BuyerAmount(actor, o.buyer, amt, o.amount), p)

\* some UpdateOffer by a participant, naming the order's product, would pass
\* validate now and change the order's status
CanChangeStatus(o) ==
    \E actor \in {o.buyer, o.vendor}, amt \in Amounts \cup {NoAmount},
       st \in Status \cup {NoStatus} :
        /\ ValidatePut(avail, actor, o.buyer, o.product, amt) = Ok
        /\ StatusAfter(o, actor, o.product, amt, st) # o.status

C16_WitnessDenied ==
    \E r \in Slots :
        /\ ParticipantUpdate(reqs[r])
        /\ reqs[r].actor = orders[reqs[r].oid].vendor
        /\ reqs[r].product = orders[reqs[r].oid].product
        /\ reqs[r].pre.orders[reqs[r].oid].status = "DENIED"
        /\ orders[reqs[r].oid].status = "ACCEPTED"
        /\ reqs[r].result = Ok

\* C17: a vendor's UpdateOffer never changes the order's persisted amount,
\* also when it interleaves with a buyer's UpdateOffer on the same order: the
\* vendor's instance.save() leaves the amount column as it finds it.
C17_VendorKeepsAmount ==
    [][\A r \in Slots :
          ( /\ reqs[r].pc = "u_save" /\ reqs'[r].pc = "u_product"
            /\ reqs[r].actor = orders[reqs[r].oid].vendor )
          => orders'[reqs[r].oid].amount = orders[reqs[r].oid].amount]_vars

C18_WitnessVendor ==
    \E r \in Slots :
        LET rq == reqs[r]
        IN /\ rq.pc = "done" /\ rq.op = "update" /\ rq.result = Ok
           /\ rq.actor = Seller[orders[rq.oid].product]
           /\ rq.actor = "w"
           /\ rq.status = "ACCEPTED" /\ rq.pre.orders[rq.oid].status # "ACCEPTED"

\* C19: in every state of a sequential execution, every order's amount is at
\* most the price of the product that order references.
C19_AmountWithinPrice ==
    \A i \in OrderIds : orders[i].amount <= Price[orders[i].product]

\* C20: a successful UpdateOffer leaves the is_available flag of every
\* product other than the order's own product as it was, whatever product the
\* payload names.
C20_OtherProductsUntouched ==
    \A r \in Slots :
        LET rq == reqs[r]
        IN (rq.pc = "done" /\ rq.op = "update" /\ rq.result = Ok)
           => \A q \in Products \ {orders[rq.oid].product} :
                 avail[q] = rq.pre.avail[q]

====
